---- MODULE Spec2Model ----
(***************************************************************************)
(* Model of plinko-reference: the binomial-tree invertible PRF (iprf.py)   *)
(* and the table-backed pseudorandom permutation (table_prp.py).           *)
(*                                                                         *)
(* The block cipher is an unknown keyed function.  It is a state variable  *)
(* (aes) whose value is drawn when an instance is built: one output word   *)
(* for every node identifier the instance's tree can produce.  Word widths *)
(* are reduced (PrfBits, ShiftBits stand for 64 and 11); probabilities and *)
(* the uniform value are exact rationals (numerator, denominator) where    *)
(* the code uses IEEE doubles.                                             *)
(***************************************************************************)
EXTENDS Integers, Naturals, Sequences, FiniteSets, TLC

\* ---------------------------------------------------------------- bounds
MaxN == 3
MaxM == 3
MaxDraws == 4

\* ------------------------------------------------------ program constants
KEY_LEN == 16
PrfBits == 3
ShiftBits == 1
EXACT_LIMIT == 100
RngBits == 3
FieldBits == 3
LOW_SHIFT == 32
LogBits == 2

\* IPRF instance: its fields, the cipher under its key, whether it exists
VARIABLES key, domain, range_size, tree_depth, aes, inst
\* TablePRP instance: its fields, the locals of _generate_permutation (perm
\* and the loop index i), the generator's counter and the position of the construction
VARIABLES prp_domain, prp_key, forward_table, inverse_table, perm, fy_i, rng_counter, pc
\* the uint64_n calls the construction has completed: argument and result
VARIABLES call_log
\* uint64_n of a DeterministicRNG: its argument n and the word r it drew last
VARIABLES rng_n, rng_r
\* the number of uint64() calls made on the generator, the counter value the
\* last of them put in its block, and the draws of the current uint64_n call
VARIABLES rng_draws, rng_block, call_draws
\* threads inside uint64() on one shared generator: where each stands, the
\* block it packed, the counter it loaded for the increment, the word it got
VARIABLES t_pc, t_block, t_tmp, t_ret
\* the last call made, and the exception it raised
VARIABLES raised, last

iprfVars == <<key, domain, range_size, tree_depth, aes, inst>>
prpVars == <<prp_domain, prp_key, forward_table, inverse_table, perm, fy_i, rng_counter, pc,
            call_log>>
rngVars == <<rng_n, rng_r, rng_draws, rng_block, call_draws>>
raceVars == <<t_pc, t_block, t_tmp, t_ret>>
vars == <<iprfVars, prpVars, rngVars, raceVars, raised, last>>

\* ------------------------------------------------------------- arithmetic
RECURSIVE Pow(_, _)
Pow(b, e) == IF e = 0 THEN 1 ELSE b * Pow(b, e - 1)

\* ceil(log2(m)) for m >= 1, exactly
RECURSIVE CeilLog2(_)
CeilLog2(m) == IF m <= 1 THEN 0 ELSE 1 + CeilLog2((m + 1) \div 2)

\* floor(log2(v)) for v >= 1
RECURSIVE FloorLog2(_)
FloorLog2(v) == IF v <= 1 THEN 0 ELSE 1 + FloorLog2(v \div 2)

\* int(math.ceil(math.log2(m))) for m >= 2 as a double computes it: log2(m)
\* is rounded to the nearest value with LogBits significant bits (LogBits
\* stands for 53) before the ceiling is taken.  With frac fraction bits left
\* at the magnitude of log2(m), q is the rounded value in units of 2^-frac:
\* the largest q with 2^(2q-1) <= m^(2^(frac+1)).
CeilLog2Float(m) ==
    LET frac == LogBits - 1 - FloorLog2(FloorLog2(m))
        q == (FloorLog2(Pow(m, Pow(2, frac + 1))) + 1) \div 2
    IN  (q + Pow(2, frac) - 1) \div Pow(2, frac)

\* list(range(a, b)) : a, a+1, ..., b-1
Range(a, b) == [i \in 1..(IF b > a THEN b - a ELSE 0) |-> a + i - 1]

\* sorted(s): insertion of every element of s into an ascending list
RECURSIVE Insert(_, _)
Insert(s, v) ==
    IF s = <<>> THEN <<v>>
    ELSE IF v < Head(s) THEN <<v>> \o s
    ELSE <<Head(s)>> \o Insert(Tail(s), v)

\* sorted(s, reverse=True)
RECURSIVE SortedDescending(_)
SortedDescending(s) ==
    IF s = <<>> THEN <<>>
    ELSE LET t == SortedDescending(Tail(s))
             ge == SelectSeq(t, LAMBDA v : v >= Head(s))
             lt == SelectSeq(t, LAMBDA v : v < Head(s))
         IN  ge \o <<Head(s)>> \o lt

RECURSIVE Sorted(_)
Sorted(s) == IF s = <<>> THEN <<>> ELSE Insert(Sorted(Tail(s)), Head(s))

\* ------------------------------------------------------------ key material
KeyLens == {KEY_LEN - 1, KEY_LEN, KEY_LEN + 1}
\* A key is its byte length; its content is the cipher function it selects.
Keys == [len : KeyLens]
Words == 0..(Pow(2, PrfBits) - 1)

\* ----------------------------------------------------- helper functions
\* encode_node: the packed triple; SHA-256 is taken as collision-free on it.
EncodeNode(low, high, n) == <<low, high, n>>

\* struct.pack('>QQQ', low, high, n) raises struct.error when a field is
\* negative or does not fit its unsigned width (FieldBits stands for 64).
Packable(v) == 0 <= v /\ v < Pow(2, FieldBits)
EncodeNodeRaises(low, high, n) == ~(Packable(low) /\ Packable(high) /\ Packable(n))

\* mid = low: the left half is the single bin low
MidLow(low, high) == low

\* mid = (low + high) // 2
Mid(low, high) == (low + high) \div 2

\* The internal nodes of the tree over bins [low, high] of an instance with
\* domain n, by their identifiers.
RECURSIVE TreeNodes(_, _, _)
TreeNodes(low, high, n) ==
    IF low >= high THEN {}
    ELSE LET mid == Mid(low, high)
         IN  {EncodeNode(low, high, n)} \cup TreeNodes(low, mid, n)
                                        \cup TreeNodes(mid + 1, high, n)

\* _prf_eval: first word of AES(key, x).  Blocks outside the drawn table are
\* never produced by forward or inverse.
PrfEval(x) == IF x \in DOMAIN aes THEN aes[x] ELSE 0

\* uniform = ((prf_output >> 11) + 0.5) / 2^53, as numerator / denominator
UniformNum(prf_output) == 2 * (prf_output \div Pow(2, ShiftBits)) + 1
UniformDen == Pow(2, PrfBits - ShiftBits + 1)

\* -------------------------------------------------------- binomial sampler
\* inv_normal_cdf in thousandths: p_m is p * 1000, the result is z * 1000.
InvNormalCdf(p_m) ==
    IF p_m <= 0 THEN -10000
    ELSE IF p_m >= 1000 THEN 10000
    ELSE LET y == p_m - 500
             absy == IF y < 0 THEN -y ELSE y
             r == (y * y) \div 1000
             num == (((((-25441 * r) \div 1000 + 41391) * r) \div 1000
                      - 18615) * r) \div 1000 + 2507
             den == (((((((3131 * r) \div 1000 - 21062) * r) \div 1000
                      + 23083) * r) \div 1000 - 8474) * r) \div 1000 + 1000
         IN  IF absy < 420 THEN (y * num) \div den
             ELSE IF y > 0 THEN 2000 ELSE -2000

\* floor(sqrt(v)) by bisection on [lo, hi]
RECURSIVE ISqrt(_, _, _)
ISqrt(v, lo, hi) ==
    IF lo >= hi THEN lo
    ELSE LET m == (lo + hi + 1) \div 2
         IN  IF m * m <= v THEN ISqrt(v, m, hi) ELSE ISqrt(v, lo, m - 1)

Max(a, b) == IF a >= b THEN a ELSE b
Min(a, b) == IF a <= b THEN a ELSE b

\* _normal_approx_binomial(n, p, u), p = pn / pd and u = un / ud, computed
\* in thousandths where the code computes in doubles.
NormalApproxBinomial(n, pn, pd, un, ud) ==
    LET mean_m == (n * pn * 1000) \div pd
        stddev_m == ISqrt((n * pn * (pd - pn) * 10000) \div (pd * pd), 0, 46000) * 10
        u_clamped == Max(1, Min(999, (un * 1000) \div ud))
        z_m == InvNormalCdf(u_clamped)
        result_m == mean_m + (z_m * (stddev_m \div 10)) \div 100
        floor_r == result_m \div 1000
        frac_m == result_m % 1000
        \* round(): to the nearest integer, a tie to the even one
        rounded == IF frac_m > 500 THEN floor_r + 1
                   ELSE IF frac_m < 500 THEN floor_r
                   ELSE IF floor_r % 2 = 0 THEN floor_r ELSE floor_r + 1
    IN  Max(0, Min(n, rounded))

\* the loop of _binomial_inverse_cdf returning k + 2 in place of k + 1
RECURSIVE CdfLoopOffByOne(_, _, _, _, _, _, _, _)
CdfLoopOffByOne(k, prob, cum, n, pn, pd, un, ud) ==
    IF k >= n THEN n
    ELSE LET prob1 == (prob * (n - k) * pn) \div ((k + 1) * (pd - pn))
             cum1 == cum + prob1
         IN  IF un * Pow(pd, n) <= ud * cum1 THEN k + 2
             ELSE CdfLoopOffByOne(k + 1, prob1, cum1, n, pn, pd, un, ud)

\* The loop of _binomial_inverse_cdf from iteration k on: prob is the
\* numerator of P(X = k) and cum the numerator of P(X <= k), both over pd^n.
RECURSIVE CdfLoop(_, _, _, _, _, _, _, _)
CdfLoop(k, prob, cum, n, pn, pd, un, ud) ==
    IF k >= n THEN n
    ELSE LET prob1 == (prob * (n - k) * pn) \div ((k + 1) * (pd - pn))
             cum1 == cum + prob1
         IN  IF un * Pow(pd, n) <= ud * cum1 THEN k + 1
             ELSE CdfLoop(k + 1, prob1, cum1, n, pn, pd, un, ud)

\* _binomial_inverse_cdf(n, p, u) with p = pn / pd and u = un / ud
BinomialInverseCdf(n, pn, pd, un, ud) ==
    IF un <= 0 THEN 0
    ELSE IF un >= ud THEN n
    ELSE IF pn = 0 THEN 0
    ELSE IF pn = pd THEN n
    ELSE IF n = 0 THEN 0
    ELSE IF n > EXACT_LIMIT THEN NormalApproxBinomial(n, pn, pd, un, ud)
    ELSE LET prob == Pow(pd - pn, n)
         IN  IF un * Pow(pd, n) <= ud * prob THEN 0
             ELSE CdfLoop(0, prob, prob, n, pn, pd, un, ud)

\* _sample_binomial(node_id, n, p)
SampleBinomial(node_id, n, pn, pd) ==
    BinomialInverseCdf(n, pn, pd, UniformNum(PrfEval(node_id)), UniformDen)

\* ------------------------------------------------------------ forward walk
\* One visited node, as the walks see it.
Visit(low, high, ball_count, left_count) ==
    [low |-> low, high |-> high, ball_count |-> ball_count, left_count |-> left_count]

\* (idxs, beside the path of a forward walk, holds ball_index at the start
\* of each iteration.)

\* One call of _enumerate_recursive: the node, the ball count and index
\* range it was given, and the left_count it sampled.
Call(low, high, ball_count, start_idx, end_idx, left_count) ==
    [low |-> low, high |-> high, ball_count |-> ball_count,
     start_idx |-> start_idx, end_idx |-> end_idx, left_count |-> left_count]

\* the test with <= in place of <
GoesLeftInclusive(ball_index, left_count) == ball_index <= left_count

\* if ball_index < left_count: the ball goes left
GoesLeft(ball_index, left_count) == ball_index < left_count

\* the while loop of _trace_ball keyed on encode_node(low, high, ball_count)
RECURSIVE TraceLoopBallCount(_, _, _, _, _, _, _)
TraceLoopBallCount(low, high, ball_count, ball_index, n, path, idxs) ==
    IF ~(low < high) THEN [ret |-> low, path |-> path, raises |-> "none", idxs |-> idxs]
    ELSE IF EncodeNodeRaises(low, high, ball_count)
    THEN [ret |-> 0, path |-> path, raises |-> "struct.error", idxs |-> idxs]
    ELSE LET mid == Mid(low, high)
             left_bins == mid - low + 1
             total_bins == high - low + 1
             node_id == EncodeNode(low, high, ball_count)
             left_count == SampleBinomial(node_id, ball_count, left_bins, total_bins)
             path1 == Append(path, Visit(low, high, ball_count, left_count))
             idxs1 == Append(idxs, ball_index)
         IN  IF GoesLeft(ball_index, left_count)
             THEN TraceLoopBallCount(low, mid, left_count, ball_index, n, path1, idxs1)
             ELSE TraceLoopBallCount(mid + 1, high, ball_count - left_count,
                                     ball_index - left_count, n, path1, idxs1)

\* The while loop of _trace_ball; n is the domain the node ids are keyed on.
\* raises is the exception that ends the walk, "none" when it returns.
RECURSIVE TraceLoop(_, _, _, _, _, _, _)
TraceLoop(low, high, ball_count, ball_index, n, path, idxs) ==
    IF ~(low < high) THEN [ret |-> low, path |-> path, raises |-> "none", idxs |-> idxs]
    ELSE IF EncodeNodeRaises(low, high, n)
    THEN [ret |-> 0, path |-> path, raises |-> "struct.error", idxs |-> idxs]
    ELSE LET mid == Mid(low, high)
             left_bins == mid - low + 1
             total_bins == high - low + 1
             node_id == EncodeNode(low, high, n)
             left_count == SampleBinomial(node_id, ball_count, left_bins, total_bins)
             path1 == Append(path, Visit(low, high, ball_count, left_count))
             idxs1 == Append(idxs, ball_index)
         IN  IF GoesLeft(ball_index, left_count)
             THEN TraceLoop(low, mid, left_count, ball_index, n, path1, idxs1)
             ELSE TraceLoop(mid + 1, high, ball_count - left_count,
                            ball_index - left_count, n, path1, idxs1)

\* _trace_ball with high = m in place of m - 1
TraceBallHighM(x_prime, n, m) ==
    IF m = 1 THEN [ret |-> 0, path |-> <<>>, raises |-> "none", idxs |-> <<>>]
    ELSE TraceLoop(0, m, n, x_prime, n, <<>>, <<>>)

\* _trace_ball(x_prime, n, m)
TraceBall(x_prime, n, m) ==
    IF m = 1 THEN [ret |-> 0, path |-> <<>>, raises |-> "none", idxs |-> <<>>]
    ELSE TraceLoop(0, m - 1, n, x_prime, n, <<>>, <<>>)

\* the two ends of the index range only
LeafBallsEnds(start_idx, end_idx) == <<start_idx, end_idx>>

\* result.extend(range(start_idx, end_idx + 1)) at the target leaf
LeafBalls(start_idx, end_idx) == Range(start_idx, end_idx + 1)

\* _enumerate_recursive keyed on encode_node(low, high, ball_count)
RECURSIVE EnumerateRecursiveBallCount(_, _, _, _, _, _, _, _)
EnumerateRecursiveBallCount(target_bin, low, high, original_n, ball_count, start_idx, end_idx, path) ==
    IF low > high \/ start_idx > end_idx \/ ball_count = 0
    THEN [ret |-> <<>>, raises |-> "none",
          path |-> Append(path, Call(low, high, ball_count, start_idx, end_idx, -2))]
    ELSE IF low = high
    THEN [ret |-> IF low = target_bin THEN LeafBalls(start_idx, end_idx) ELSE <<>>,
          path |-> Append(path, Call(low, high, ball_count, start_idx, end_idx, -1)), raises |-> "none"]
    ELSE IF EncodeNodeRaises(low, high, ball_count)
    THEN [ret |-> <<>>, path |-> path, raises |-> "struct.error"]
    ELSE LET mid == Mid(low, high)
             left_bins == mid - low + 1
             total_bins == high - low + 1
             node_id == EncodeNode(low, high, ball_count)
             left_count == SampleBinomial(node_id, ball_count, left_bins, total_bins)
             right_count == ball_count - left_count
             split_idx == start_idx + left_count
             path1 == Append(path, Call(low, high, ball_count, start_idx, end_idx, left_count))
         IN  IF target_bin <= mid
             THEN IF left_count > 0 /\ split_idx > start_idx
                  THEN EnumerateRecursiveBallCount(target_bin, low, mid, original_n,
                                                   left_count, start_idx, split_idx - 1, path1)
                  ELSE [ret |-> <<>>, path |-> path1, raises |-> "none"]
             ELSE IF right_count > 0 /\ split_idx <= end_idx
                  THEN EnumerateRecursiveBallCount(target_bin, mid + 1, high, original_n,
                                                   right_count, split_idx, end_idx, path1)
                  ELSE [ret |-> <<>>, path |-> path1, raises |-> "none"]

\* ------------------------------------------------------------ inverse walk
\* _enumerate_recursive: ret is what the call appends to result, path the
\* calls made, one record each (left_count is -1 at a leaf and -2 when the
\* call returns at its first test).
RECURSIVE EnumerateRecursive(_, _, _, _, _, _, _, _)
EnumerateRecursive(target_bin, low, high, original_n, ball_count, start_idx, end_idx, path) ==
    IF low > high \/ start_idx > end_idx \/ ball_count = 0
    THEN [ret |-> <<>>, raises |-> "none",
          path |-> Append(path, Call(low, high, ball_count, start_idx, end_idx, -2))]
    ELSE IF low = high
    THEN [ret |-> IF low = target_bin THEN LeafBalls(start_idx, end_idx) ELSE <<>>,
          path |-> Append(path, Call(low, high, ball_count, start_idx, end_idx, -1)), raises |-> "none"]
    ELSE IF EncodeNodeRaises(low, high, original_n)
    THEN [ret |-> <<>>, path |-> path, raises |-> "struct.error"]
    ELSE LET mid == Mid(low, high)
             left_bins == mid - low + 1
             total_bins == high - low + 1
             node_id == EncodeNode(low, high, original_n)
             left_count == SampleBinomial(node_id, ball_count, left_bins, total_bins)
             right_count == ball_count - left_count
             split_idx == start_idx + left_count
             path1 == Append(path, Call(low, high, ball_count, start_idx, end_idx, left_count))
         IN  IF target_bin <= mid
             THEN IF left_count > 0 /\ split_idx > start_idx
                  THEN EnumerateRecursive(target_bin, low, mid, original_n, left_count,
                                          start_idx, split_idx - 1, path1)
                  ELSE [ret |-> <<>>, path |-> path1, raises |-> "none"]
             ELSE IF right_count > 0 /\ split_idx <= end_idx
                  THEN EnumerateRecursive(target_bin, mid + 1, high, original_n, right_count,
                                          split_idx, end_idx, path1)
                  ELSE [ret |-> <<>>, path |-> path1, raises |-> "none"]

\* return sorted(result), r being what the recursion left
SortedResult(r) == [ret |-> Sorted(r.ret), path |-> r.path, raises |-> r.raises]

\* _enumerate_balls_in_bin with end_idx = n - 2 in place of n - 1
EnumerateBallsInBinEndShort(target_bin, n, m) ==
    IF m = 1 THEN [ret |-> Range(0, n), path |-> <<>>, raises |-> "none"]
    ELSE SortedResult(EnumerateRecursive(target_bin, 0, m - 1, n, n, 0, n - 2, <<>>))

\* _enumerate_balls_in_bin with list(range(1, n)) for the single bin
EnumerateBallsInBinFromOne(target_bin, n, m) ==
    IF m = 1 THEN [ret |-> Range(1, n), path |-> <<>>, raises |-> "none"]
    ELSE SortedResult(EnumerateRecursive(target_bin, 0, m - 1, n, n, 0, n - 1, <<>>))

\* _enumerate_balls_in_bin(target_bin, n, m)
EnumerateBallsInBin(target_bin, n, m) ==
    IF m = 1 THEN [ret |-> Range(0, n), path |-> <<>>, raises |-> "none"]
    ELSE SortedResult(EnumerateRecursive(target_bin, 0, m - 1, n, n, 0, n - 1, <<>>))

\* forward with the clamp x > domain in place of x >= domain
IprfForwardClampLate(x) ==
    IF x > domain THEN [ret |-> 0, path |-> <<>>, raises |-> "none", idxs |-> <<>>]
    ELSE TraceBall(x, domain, range_size)

\* forward(x) and inverse(y) of the instance held in the state
IprfForward(x) ==
    IF x >= domain THEN [ret |-> 0, path |-> <<>>, raises |-> "none", idxs |-> <<>>]
    ELSE TraceBall(x, domain, range_size)

IprfInverse(y) ==
    IF y >= range_size THEN [ret |-> <<>>, path |-> <<>>, raises |-> "none"]
    ELSE EnumerateBallsInBin(y, domain, range_size)

\* Number of sampler calls in a walk: the internal nodes it visited.
Samples(path) == Cardinality({i \in 1..Len(path) : path[i].left_count >= 0})

\* ---------------------------------------------------------------- actions
\* the threads that share one generator
Threads == {1, 2}

NoCall == [op |-> "none", arg |-> 0, ret |-> 0, path |-> <<>>]

Init ==
    /\ key = [len |-> 0]
    /\ domain = 0
    /\ range_size = 0
    /\ tree_depth = 0
    /\ aes = <<>>
    /\ inst = FALSE
    /\ prp_domain = 0
    /\ prp_key = [len |-> 0]
    /\ forward_table = <<>>
    /\ inverse_table = <<>>
    /\ perm = <<>>
    /\ fy_i = 0
    /\ rng_counter = 0
    /\ pc = "none"
    /\ call_log = <<>>
    /\ rng_n = 0
    /\ rng_r = 0
    /\ rng_draws = 0
    /\ rng_block = -1
    /\ call_draws = 0
    /\ t_pc = [t \in Threads |-> "start"]
    /\ t_block = [t \in Threads |-> <<-1, -1>>]
    /\ t_tmp = [t \in Threads |-> -1]
    /\ t_ret = [t \in Threads |-> <<>>]
    /\ raised = "none"
    /\ last = NoCall

\* The two validation tests of IPRF.__init__
InvalidKey(k) == k.len # KEY_LEN
\* the domain test with 'and' in place of 'or'
InvalidDomainBoth(n, m) == n = 0 /\ m = 0
InvalidDomain(n, m) == n = 0 \/ m = 0

\* IPRF.__init__ on arguments that fail validation
NewFails(k, n, m) ==
    /\ InvalidKey(k) \/ InvalidDomain(n, m)
    /\ raised' = "ValueError"
    /\ last' = [op |-> "new", arg |-> <<k, n, m>>, ret |-> 0, path |-> <<>>]
    /\ UNCHANGED <<key, domain, range_size, tree_depth, aes, inst>>
    /\ UNCHANGED <<prpVars, rngVars, raceVars>>

\* IPRF.__init__ on valid arguments; f is the cipher under key k
NewOk(k, n, m, f) ==
    /\ ~InvalidKey(k)
    /\ ~InvalidDomain(n, m)
    /\ key' = k
    /\ domain' = n
    /\ range_size' = m
    /\ tree_depth' = (IF m > 1 THEN CeilLog2Float(m) ELSE 0)
    /\ aes' = f
    /\ inst' = TRUE
    /\ UNCHANGED <<prpVars, rngVars, raceVars>>
    /\ raised' = "none"
    /\ last' = [op |-> "new", arg |-> <<k, n, m>>, ret |-> 0, path |-> <<>>]

New ==
    /\ ~inst /\ raised = "none"
    /\ \E k \in Keys, n \in 0..MaxN, m \in 0..MaxM :
           \/ NewFails(k, n, m)
           \/ \E f \in [TreeNodes(0, m - 1, n) -> Words] : NewOk(k, n, m, f)

\* A call of op on arg that ended as the walk r did: what it returned, the
\* nodes it visited, and the exception that escaped it.
Returned(op, arg, r) ==
    /\ last' = [op |-> op, arg |-> arg, ret |-> r.ret, path |-> r.path]
    /\ raised' = r.raises

\* forward(x) that keeps the depth it reached in self.tree_depth
ForwardMemo(x) ==
    /\ inst
    /\ Returned("forward", x, IprfForward(x))
    /\ tree_depth' = Len(last'.path)
    /\ UNCHANGED <<key, domain, range_size, aes, inst>>
    /\ UNCHANGED <<prpVars, rngVars, raceVars>>

Forward(x) ==
    /\ inst
    /\ Returned("forward", x, IprfForward(x))
    /\ UNCHANGED <<key, domain, range_size, tree_depth, aes, inst>>
    /\ UNCHANGED <<prpVars, rngVars, raceVars>>

Inverse(y) ==
    /\ inst
    /\ Returned("inverse", y, IprfInverse(y))
    /\ UNCHANGED <<key, domain, range_size, tree_depth, aes, inst>>
    /\ UNCHANGED <<prpVars, rngVars, raceVars>>

Next ==
    \/ New
    \/ \E x \in (-1)..(MaxN + 1) : Forward(x)
    \/ \E y \in (-1)..(MaxM + 1) : Inverse(y)

Spec == Init /\ [][Next]_vars

\* IPRF over every size __init__ accepts: it rejects 0 only, so a size that
\* does not fit a field of encode_node constructs as well.
OverSize == Pow(2, FieldBits)

NewWide ==
    /\ ~inst /\ raised = "none"
    /\ \E k \in Keys, n \in (0..MaxN) \cup {OverSize}, m \in 0..MaxM :
           \/ NewFails(k, n, m)
           \/ \E f \in [TreeNodes(0, m - 1, n) -> Words] : NewOk(k, n, m, f)

NextWide ==
    \/ NewWide
    \/ \E x \in (-1)..(MaxN + 1) : Forward(x)
    \/ \E y \in (-1)..(MaxM + 1) : Inverse(y)

SpecWide == Init /\ [][NextWide]_vars

\* IPRF over the first range whose log2 a double of LogBits bits rounds down
\* to an integer: 2^LogBits + 1 (2^49 + 1 for 53 bits).
DeepRange == Pow(2, LogBits) + 1

NewDeep ==
    /\ ~inst /\ raised = "none"
    /\ \E k \in Keys, n \in 0..MaxN, m \in {DeepRange} :
           \/ NewFails(k, n, m)
           \/ \E f \in [TreeNodes(0, m - 1, n) -> Words] : NewOk(k, n, m, f)

\* calls on the first balls and on the two deepest bins, 0 and 1
NextDeep ==
    \/ NewDeep
    \/ \E x \in 0..1 : Forward(x)
    \/ \E y \in 0..1 : Inverse(y)

SpecDeep == Init /\ [][NextDeep]_vars

\* ------------------------------------------------------ DeterministicRNG
\* a & b on non-negative integers
RECURSIVE BitAnd(_, _)
BitAnd(a, b) ==
    IF a = 0 \/ b = 0 THEN 0
    ELSE (a % 2) * (b % 2) + 2 * BitAnd(a \div 2, b \div 2)

\* self.counter += 2
NextCounterSkip(c) == c + 2

\* self.counter += 1
NextCounter(c) == c + 1

\* the values of one uint64() word, at the model's width
RngWords == 0..(Pow(2, RngBits) - 1)

\* max_val = (1 << 64) - 1 and threshold = max_val - (max_val % n)
MaxVal == Pow(2, RngBits) - 1
\* threshold = max_val, nothing subtracted
ThresholdMax(n) == MaxVal
Threshold(n) == MaxVal - (MaxVal % n)

\* uint64_n(n) returns 0 without drawing when n is 0 or 1
Uint64NNoDraw(n) == n = 0 \/ n = 1

\* uint64_n whose mask is n in place of n - 1
Uint64NOnDrawMaskN(n, r) ==
    IF BitAnd(n, n - 1) = 0
    THEN [accept |-> TRUE, ret |-> BitAnd(r, n)]
    ELSE IF r < Threshold(n)
    THEN [accept |-> TRUE, ret |-> r % n]
    ELSE [accept |-> FALSE, ret |-> 0]

\* What uint64_n(n), n >= 2, does with one drawn word r: return a value
\* (accept) or draw again.
Uint64NOnDraw(n, r) ==
    IF BitAnd(n, n - 1) = 0
    THEN [accept |-> TRUE, ret |-> BitAnd(r, n - 1)]
    ELSE IF r < Threshold(n)
    THEN [accept |-> TRUE, ret |-> r % n]
    ELSE [accept |-> FALSE, ret |-> 0]

\* ---------------------------------------------------------------- TablePRP
\* a swap that loses perm[i]:  perm[i] = perm[j]
SwapLost(p, a, b) == [p EXCEPT ![a] = p[b]]

\* perm[i], perm[j] = perm[j], perm[i]
Swap(p, a, b) == [p EXCEPT ![a] = p[b], ![b] = p[a]]

\* The table-building loop: forward_table[x] = perm[x] for x = 0..n-1
BuildForward(p, n) == [x \in 0..(n - 1) |-> p[x]]

\* the inverse table filled like the forward one: inverse_table[x] = perm[x]
BuildInverseCopy(p, n) == [x \in 0..(n - 1) |-> p[x]]

\* inverse_table[perm[x]] = x for x = 0..n-1 in that order: a later x
\* overwrites an earlier one with the same perm[x]
BuildInverse(p, n) ==
    [y \in {p[x] : x \in 0..(n - 1)} |->
        CHOOSE x \in 0..(n - 1) :
            p[x] = y /\ \A z \in 0..(n - 1) : p[z] = y => z <= x]

\* The two validation tests of TablePRP.__init__
PrpInvalidDomain(n) == n = 0
\* the key test of DeterministicRNG, which pads a short key: len(key) < 16
PrpInvalidKeyShort(k) == k.len < KEY_LEN
PrpInvalidKey(k) == k.len # KEY_LEN

PrpCall(op, arg, ret) == [op |-> op, arg |-> arg, ret |-> ret, path |-> <<>>]

\* TablePRP.__init__ on arguments that fail validation
PrpNewFails(n, k) ==
    /\ PrpInvalidDomain(n) \/ PrpInvalidKey(k)
    /\ raised' = "ValueError"
    /\ last' = PrpCall("prp_new", <<n, k>>, 0)
    /\ UNCHANGED <<prpVars, rngVars, raceVars>>

\* TablePRP.__init__ on valid arguments, up to the first draw of the shuffle
\* (for n = 1 the loop is empty and the tables are built at once)
PrpNewOk(n, k) ==
    /\ ~PrpInvalidDomain(n)
    /\ ~PrpInvalidKey(k)
    /\ prp_domain' = n
    /\ prp_key' = k
    /\ rng_counter' = 0
    /\ call_log' = <<>>
    /\ rng_n' = 0 /\ rng_r' = 0
    /\ rng_draws' = 0 /\ rng_block' = -1 /\ call_draws' = 0
    /\ IF n - 1 >= 1
       THEN /\ perm' = [x \in 0..(n - 1) |-> x]
            /\ fy_i' = n - 1
            /\ forward_table' = <<>>
            /\ inverse_table' = <<>>
            /\ pc' = "shuffle"
       ELSE /\ perm' = <<>>
            /\ fy_i' = 0
            /\ forward_table' = BuildForward([x \in 0..(n - 1) |-> x], n)
            /\ inverse_table' = BuildInverse([x \in 0..(n - 1) |-> x], n)
            /\ pc' = "ready"
    /\ raised' = "none"
    /\ last' = PrpCall("prp_new", <<n, k>>, 0)

PrpNew ==
    /\ pc = "none" /\ raised = "none" /\ ~inst
    /\ \E n \in 0..MaxN, k \in Keys : PrpNewFails(n, k) \/ PrpNewOk(n, k)
    /\ UNCHANGED <<iprfVars, raceVars>>

\* the draw made with argument i: j in [0, i)
DrawArgExclusive(idx) == idx

\* The argument of the draw of iteration i: rng.uint64_n(i + 1)
DrawArg(idx) == idx + 1

\* One uint64() draw of j = rng.uint64_n(i + 1) in the Fisher-Yates loop: the
\* word is rejected, or j is returned, the swap made and the loop goes on; the
\* last iteration is followed by the table-building loop.
ShuffleDraw ==
    /\ pc = "shuffle" /\ fy_i >= 1
    /\ rng_counter < MaxDraws
    /\ \E r \in RngWords :
          LET d == Uint64NOnDraw(DrawArg(fy_i), r)
              swapped == Swap(perm, fy_i, d.ret)
          IN  /\ rng_counter' = NextCounter(rng_counter)
              /\ rng_block' = rng_counter
              /\ rng_draws' = rng_draws + 1
              /\ call_draws' = (IF rng_n = DrawArg(fy_i) THEN call_draws + 1 ELSE 1)
              /\ rng_n' = DrawArg(fy_i)
              /\ rng_r' = r
              /\ call_log' = (IF d.accept
                              THEN Append(call_log, [n |-> DrawArg(fy_i), ret |-> d.ret])
                              ELSE call_log)
              /\ IF ~d.accept
                 THEN UNCHANGED <<perm, fy_i, forward_table, inverse_table, pc>>
                 ELSE IF fy_i - 1 >= 1
                 THEN /\ perm' = swapped
                      /\ fy_i' = fy_i - 1
                      /\ UNCHANGED <<forward_table, inverse_table, pc>>
                 ELSE /\ perm' = <<>>
                      /\ fy_i' = 0
                      /\ forward_table' = BuildForward(swapped, prp_domain)
                      /\ inverse_table' = BuildInverse(swapped, prp_domain)
                      /\ pc' = "ready"
    /\ UNCHANGED <<prp_domain, prp_key, raised, last>>
    /\ UNCHANGED <<iprfVars, raceVars>>

\* the domain test without its x < 0 half
OutOfDomainHigh(v) == v >= prp_domain

\* The domain test of forward and inverse: x >= self.domain or x < 0
OutOfDomain(v) == v >= prp_domain \/ v < 0

\* d[k] on a dict: the value, or the KeyError of a missing key
Lookup(d, k) ==
    IF k \in DOMAIN d THEN [raises |-> "none", ret |-> d[k]]
    ELSE [raises |-> "KeyError", ret |-> 0]

\* TablePRP.forward(x)
PrpForward(x) ==
    /\ pc = "ready"
    /\ IF OutOfDomain(x)
       THEN /\ raised' = "ValueError"
            /\ last' = PrpCall("prp_forward", x, 0)
       ELSE /\ raised' = Lookup(forward_table, x).raises
            /\ last' = PrpCall("prp_forward", x, Lookup(forward_table, x).ret)
    /\ UNCHANGED <<prpVars, iprfVars, raceVars, rngVars>>

\* TablePRP.inverse(y)
PrpInverse(y) ==
    /\ pc = "ready"
    /\ IF OutOfDomain(y)
       THEN /\ raised' = "ValueError"
            /\ last' = PrpCall("prp_inverse", y, 0)
       ELSE /\ raised' = Lookup(inverse_table, y).raises
            /\ last' = PrpCall("prp_inverse", y, Lookup(inverse_table, y).ret)
    /\ UNCHANGED <<prpVars, iprfVars, raceVars, rngVars>>

\* len(d) of a table
TableLen(t) == Cardinality(DOMAIN t)

\* verify_bijection(): the value it returns, or the KeyError a lookup of a
\* missing key raises
VerifyBijectionResult ==
    IF TableLen(forward_table) # prp_domain THEN [raises |-> "none", ret |-> FALSE]
    ELSE IF TableLen(inverse_table) # prp_domain THEN [raises |-> "none", ret |-> FALSE]
    ELSE IF \E x \in 0..(prp_domain - 1) :
                x \notin DOMAIN forward_table
                \/ forward_table[x] \notin DOMAIN inverse_table
    THEN [raises |-> "KeyError", ret |-> FALSE]
    ELSE [raises |-> "none",
          ret |-> \A x \in 0..(prp_domain - 1) : inverse_table[forward_table[x]] = x]

\* TablePRP.verify_bijection()
VerifyBijection ==
    /\ pc = "ready"
    /\ raised' = VerifyBijectionResult.raises
    /\ last' = PrpCall("verify_bijection", 0, VerifyBijectionResult.ret)
    /\ UNCHANGED <<prpVars, iprfVars, raceVars, rngVars>>

NextPRP ==
    \/ PrpNew
    \/ ShuffleDraw
    \/ \E x \in (-1)..(MaxN + 1) : PrpForward(x)
    \/ \E y \in (-1)..(MaxN + 1) : PrpInverse(y)
    \/ VerifyBijection

SpecPRP == Init /\ [][NextPRP]_vars

\* ------------------------------------------ DeterministicRNG on its own
\* DeterministicRNG(key): the counter starts at 0
RngNew(k) ==
    /\ pc = "none" /\ raised = "none" /\ ~inst
    /\ rng_counter' = 0
    /\ pc' = "rng_idle"
    /\ raised' = "none"
    /\ last' = PrpCall("rng_new", k, 0)
    /\ rng_draws' = 0 /\ rng_block' = -1 /\ call_draws' = 0
    /\ UNCHANGED <<prp_domain, prp_key, forward_table, inverse_table, perm, fy_i, call_log>>
    /\ UNCHANGED <<iprfVars, raceVars, rng_n, rng_r>>

\* uint64_n(n) up to its first draw: n = 0 and n = 1 return 0 at once
Uint64NCall(n) ==
    /\ pc = "rng_idle"
    /\ rng_n' = n
    /\ IF Uint64NNoDraw(n)
       THEN /\ last' = PrpCall("uint64_n", n, 0)
            /\ pc' = "rng_idle"
       ELSE /\ last' = PrpCall("uint64_n_enter", n, 0)
            /\ pc' = "rng_draw"
    /\ raised' = "none"
    /\ call_draws' = 0
    /\ UNCHANGED <<prp_domain, prp_key, forward_table, inverse_table, perm, fy_i, rng_counter>>
    /\ UNCHANGED <<iprfVars, raceVars, rng_r, rng_draws, rng_block, call_log>>

\* One uint64() draw inside uint64_n(n): the masked word or the residue is
\* returned, or the word is rejected and the loop draws again
Uint64NDraw ==
    /\ pc = "rng_draw"
    /\ rng_counter < MaxDraws
    /\ \E r \in RngWords :
          LET d == Uint64NOnDraw(rng_n, r)
          IN  /\ rng_counter' = NextCounter(rng_counter)
              /\ rng_block' = rng_counter
              /\ rng_draws' = rng_draws + 1
              /\ call_draws' = call_draws + 1
              /\ rng_r' = r
              /\ IF d.accept
                 THEN /\ last' = PrpCall("uint64_n", rng_n, d.ret)
                      /\ pc' = "rng_idle"
                 ELSE UNCHANGED <<last, pc>>
    /\ UNCHANGED <<prp_domain, prp_key, forward_table, inverse_table, perm, fy_i, call_log>>
    /\ UNCHANGED <<iprfVars, raceVars, rng_n, raised>>

NextRNG ==
    \/ \E k \in Keys : RngNew(k)
    \/ \E n \in 0..MaxVal : Uint64NCall(n)
    \/ Uint64NDraw

SpecRNG == Init /\ [][NextRNG]_vars

\* ------------------------------------------------ the sampler on its own
\* Ball counts on the exact path and past EXACT_LIMIT; probabilities: the
\* edge values, the splits the tree produces and, on the approximation path,
\* values near 0 and 1; u: the edge values, every k/8 and the two tails.
SamplerCounts == (0..MaxN) \cup ((EXACT_LIMIT + 1)..(EXACT_LIMIT + MaxN))
SamplerProbs(n) ==
    {<<0, 1>>, <<1, 2>>, <<2, 3>>, <<1, 1>>}
        \cup (IF n > EXACT_LIMIT THEN {<<1, 100>>, <<99, 100>>} ELSE {})
SamplerUniforms == {<<k, 8>> : k \in 0..8} \cup {<<1, 20>>, <<19, 20>>}

\* _binomial_inverse_cdf(n, p, u)
BinomialCall(n, p, u) ==
    /\ last' = [op |-> "binomial_inverse_cdf", arg |-> <<n, p, u>>,
                ret |-> BinomialInverseCdf(n, p[1], p[2], u[1], u[2]), path |-> <<>>]
    /\ raised' = "none"
    /\ UNCHANGED <<iprfVars, raceVars, prpVars, rngVars>>

NextSampler ==
    \E n \in SamplerCounts : \E p \in SamplerProbs(n), u \in SamplerUniforms :
        BinomialCall(n, p, u)

SpecSampler == Init /\ [][NextSampler]_vars

\* --------------------------------------------- the readers of both classes
\* int(math.ceil(self.domain / self.range_size))
ExpectedPreimageSize == (domain + range_size - 1) \div range_size

\* IPRF.get_expected_preimage_size()
GetExpectedPreimageSize ==
    /\ inst
    /\ last' = [op |-> "get_expected_preimage_size", arg |-> 0,
                ret |-> ExpectedPreimageSize, path |-> <<>>]
    /\ raised' = "none"
    /\ UNCHANGED <<iprfVars, prpVars, rngVars, raceVars>>

\* A program that builds an IPRF or a TablePRP and then calls its readers
\* in any order.
NextReaders ==
    \/ pc = "none" /\ New
    \/ \E x \in (-1)..(MaxN + 1) : Forward(x)
    \/ \E y \in (-1)..(MaxM + 1) : Inverse(y)
    \/ GetExpectedPreimageSize
    \/ PrpNew
    \/ ShuffleDraw
    \/ \E x \in (-1)..(MaxN + 1) : PrpForward(x)
    \/ \E y \in (-1)..(MaxN + 1) : PrpInverse(y)
    \/ VerifyBijection

SpecReaders == Init /\ [][NextReaders]_vars

\* ------------------------------------ uint64() called from two threads
\* c >> k
RECURSIVE ShiftRight(_, _)
ShiftRight(c, k) == IF k = 0 \/ c = 0 THEN c ELSE ShiftRight(c \div 2, k - 1)

\* The cipher under the generator's key applied to a block: a function of
\* the block, and a permutation of blocks.
Encrypt(block) == [enc |-> block]

\* struct.pack_into('>Q', input_block, 0, self.counter)
PackHigh(t) ==
    /\ pc = "rng_idle" /\ t_pc[t] = "start"
    /\ t_block' = [t_block EXCEPT ![t] = <<rng_counter, -1>>]
    /\ t_pc' = [t_pc EXCEPT ![t] = "packed_high"]
    /\ UNCHANGED <<t_tmp, t_ret, iprfVars, prpVars, rngVars, raised, last>>

\* struct.pack_into('>Q', input_block, 8, self.counter >> 32)
PackLow(t) ==
    /\ t_pc[t] = "packed_high"
    /\ t_block' = [t_block EXCEPT ![t] = <<t_block[t][1], ShiftRight(rng_counter, LOW_SHIFT)>>]
    /\ t_pc' = [t_pc EXCEPT ![t] = "packed"]
    /\ UNCHANGED <<t_tmp, t_ret, iprfVars, prpVars, rngVars, raised, last>>

\* output_block = self._encryptor.update(bytes(input_block))
EncryptBlock(t) ==
    /\ t_pc[t] = "packed"
    /\ t_ret' = [t_ret EXCEPT ![t] = Encrypt(t_block[t])]
    /\ t_pc' = [t_pc EXCEPT ![t] = "encrypted"]
    /\ rng_draws' = rng_draws + 1
    /\ rng_block' = t_block[t][1]
    /\ UNCHANGED <<t_block, t_tmp, iprfVars, prpVars, rng_n, rng_r, call_draws, raised, last>>

\* self.counter += 1, its read
LoadCounter(t) ==
    /\ t_pc[t] = "encrypted"
    /\ t_tmp' = [t_tmp EXCEPT ![t] = rng_counter]
    /\ t_pc' = [t_pc EXCEPT ![t] = "loaded"]
    /\ UNCHANGED <<t_block, t_ret, iprfVars, prpVars, rngVars, raised, last>>

\* self.counter += 1, its write; the call then returns its word
StoreCounter(t) ==
    /\ t_pc[t] = "loaded"
    /\ rng_counter' = NextCounter(t_tmp[t])
    /\ t_pc' = [t_pc EXCEPT ![t] = "done"]
    /\ UNCHANGED <<prp_domain, prp_key, forward_table, inverse_table, perm, fy_i, pc, call_log>>
    /\ UNCHANGED <<t_block, t_tmp, t_ret, iprfVars, rngVars, raised, last>>

NextRace ==
    \/ \E k \in Keys : RngNew(k)
    \/ \E t \in Threads : PackHigh(t)
    \/ \E t \in Threads : PackLow(t)
    \/ \E t \in Threads : EncryptBlock(t)
    \/ \E t \in Threads : LoadCounter(t)
    \/ \E t \in Threads : StoreCounter(t)

SpecRace == Init /\ [][NextRace]_vars

\* ------------------------------------------------------------------ claims
Elems(s) == {s[i] : i \in 1..Len(s)}

RECURSIVE SumLen(_)
SumLen(y) == IF y < 0 THEN 0 ELSE Len(IprfInverse(y).ret) + SumLen(y - 1)

\* C1: every x in [0, n) is an element of inverse(forward(x)).
C1_InverseComplete ==
    inst => \A x \in 0..(domain - 1) :
                x \in Elems(IprfInverse(IprfForward(x).ret).ret)

C1_Witness ==
    /\ inst /\ domain >= 2 /\ range_size >= 3
    /\ last.op = "inverse" /\ last.arg \in 0..(range_size - 1)
    /\ Len(last.ret) >= 1
    /\ \E x \in 0..(domain - 1) : IprfForward(x).ret # last.arg

\* C2: every x returned by inverse(y), y in [0, m), lies in [0, n) and
\* forward(x) = y.
C2_InverseSound ==
    inst => \A y \in 0..(range_size - 1) :
                \A x \in Elems(IprfInverse(y).ret) :
                    x \in 0..(domain - 1) /\ IprfForward(x).ret = y

C2_Witness ==
    /\ inst /\ range_size >= 2
    /\ last.op = "inverse" /\ last.arg \in 1..(range_size - 1)
    /\ Len(last.ret) >= 2 /\ Len(last.ret) < domain

\* C3: forward(x) is in [0, m) for every x in [0, n).
C3_ForwardRange ==
    /\ inst => \A x \in 0..(domain - 1) : IprfForward(x).ret \in 0..(range_size - 1)
    /\ (inst /\ last.op = "forward" /\ last.arg \in 0..(domain - 1))
           => last.ret \in 0..(range_size - 1)

C3_Witness ==
    /\ inst /\ range_size >= 3
    /\ last.op = "forward" /\ last.arg \in 0..(domain - 1)
    /\ last.ret >= 1
    /\ Len(last.path) >= 2

\* C4: after construction of TablePRP(n, key), forward restricted to [0, n)
\* is a permutation of [0, n), inverse(forward(x)) = x for every x in [0, n),
\* and both tables have exactly n entries.
C4_TablePrpBijection ==
    pc = "ready" =>
        LET D == 0..(prp_domain - 1)
        IN  /\ DOMAIN forward_table = D
            /\ DOMAIN inverse_table = D
            /\ \A x \in D : forward_table[x] \in D
            /\ \A x1, x2 \in D : forward_table[x1] = forward_table[x2] => x1 = x2
            /\ \A y \in D : \E x \in D : forward_table[x] = y
            /\ \A x \in D : inverse_table[forward_table[x]] = x
            /\ TableLen(forward_table) = prp_domain
            /\ TableLen(inverse_table) = prp_domain

C4_Witness ==
    /\ pc = "ready" /\ prp_domain >= 3
    /\ forward_table[0] # 0 /\ forward_table[prp_domain - 1] # prp_domain - 1
    /\ last.op = "prp_inverse" /\ raised = "none" /\ last.ret # last.arg

\* C6: the lengths of inverse(y) over all y in [0, m) sum to n.
C6_MassConservation == inst => SumLen(range_size - 1) = domain

C6_Witness ==
    /\ inst /\ range_size >= 3 /\ domain >= 3
    /\ last.op = "inverse"
    /\ Cardinality({y \in 0..(range_size - 1) : Len(IprfInverse(y).ret) > 0}) >= 2
    /\ \E y \in 0..(range_size - 1) : Len(IprfInverse(y).ret) = 0

\* C7: the list returned by inverse(y) is strictly increasing, for every y.
StrictlyIncreasing(s) == \A i \in 1..(Len(s) - 1) : s[i] < s[i + 1]

C7_InverseSorted ==
    /\ inst => \A y \in (-1)..(MaxM + 1) : StrictlyIncreasing(IprfInverse(y).ret)
    /\ (inst /\ last.op = "inverse") => StrictlyIncreasing(last.ret)

C7_Witness ==
    /\ inst /\ range_size >= 2
    /\ last.op = "inverse" /\ Len(last.ret) >= 2
    /\ Len(last.path) >= 2

\* C8: forward(x) returns 0 for every x >= n, inverse(y) returns the empty
\* list for every y >= m, and neither call reports an error.
C8_OutOfRangeAbsorbed ==
    /\ inst => \A x \in domain..(MaxN + 1) : IprfForward(x).ret = 0
    /\ inst => \A y \in range_size..(MaxM + 1) : IprfInverse(y).ret = <<>>
    /\ (inst /\ last.op = "forward" /\ last.arg >= domain)
           => (last.ret = 0 /\ raised = "none")
    /\ (inst /\ last.op = "inverse" /\ last.arg >= range_size)
           => (last.ret = <<>> /\ raised = "none")

C8_Witness ==
    /\ inst /\ range_size >= 2 /\ domain >= 2
    /\ last.op = "forward" /\ last.arg >= domain
    /\ \E x \in 0..(domain - 1) : IprfForward(x).ret # 0

\* C9: with m = 1, forward(x) = 0 for every x, inverse(0) is the list
\* 0, 1, ..., n-1, and no sampler call is made.
C9_SingleBin ==
    (inst /\ range_size = 1) =>
        /\ \A x \in (-1)..(MaxN + 1) :
               IprfForward(x).ret = 0 /\ Samples(IprfForward(x).path) = 0
        /\ IprfInverse(0).ret = [i \in 1..domain |-> i - 1]
        /\ Samples(IprfInverse(0).path) = 0
        /\ last.op \in {"forward", "inverse"} => Samples(last.path) = 0
        /\ (last.op = "inverse" /\ last.arg = 0) => last.ret = [i \in 1..domain |-> i - 1]

C9_Witness ==
    /\ inst /\ range_size = 1 /\ domain >= 2
    /\ last.op = "inverse" /\ last.arg = 0 /\ Len(last.ret) = domain

\* C10: construction fails with ValueError, producing no instance, when the
\* key is not 16 bytes long or n = 0 or m = 0, and in no other case.
C10_ConstructionFails ==
    last.op = "new" =>
        /\ raised = "ValueError"
               <=> (last.arg[1].len # 16 \/ last.arg[2] = 0 \/ last.arg[3] = 0)
        /\ raised = "ValueError" => ~inst
        /\ raised = "none" =>
               /\ inst
               /\ key = last.arg[1] /\ domain = last.arg[2] /\ range_size = last.arg[3]

C10_Witness ==
    /\ last.op = "new" /\ raised = "ValueError" /\ ~inst
    /\ last.arg[1].len = 16 /\ last.arg[2] > 0 /\ last.arg[3] = 0

\* C11: once an IPRF is constructed, every forward(x) and inverse(y) call
\* returns a value; no call raises, whatever its integer argument.
C11_NeverRaises ==
    (inst /\ last.op \in {"forward", "inverse"}) => raised = "none"

\* C12: TablePRP construction on n = 0 or on a key whose length is not 16
\* raises ValueError, produces no instance and makes no generator draw.
C12_PrpConstructionFails ==
    (last.op = "prp_new" /\ (last.arg[1] = 0 \/ last.arg[2].len # 16)) =>
        /\ raised = "ValueError"
        /\ pc = "none"
        /\ rng_counter = 0
        /\ forward_table = <<>> /\ inverse_table = <<>>
        /\ prp_domain = 0

C12_Witness ==
    /\ last.op = "prp_new" /\ raised = "ValueError"
    /\ last.arg[1] >= 2 /\ last.arg[2].len = 17
    /\ pc = "none" /\ rng_counter = 0

\* C13: TablePRP forward and inverse raise for every argument outside
\* [0, n), negative or >= n, return a value for every argument inside, and
\* a raising call leaves both tables as they were.
C13_PrpOutOfRange ==
    /\ [](last.op \in {"prp_forward", "prp_inverse"} =>
              /\ last.arg \notin 0..(prp_domain - 1) => raised = "ValueError"
              /\ last.arg \in 0..(prp_domain - 1) =>
                     (raised = "none" /\ last.ret \in 0..(prp_domain - 1)))
    /\ [][(last'.op \in {"prp_forward", "prp_inverse"} /\ raised' # "none")
              => (forward_table' = forward_table /\ inverse_table' = inverse_table)]_vars

C13_Witness ==
    /\ pc = "ready" /\ prp_domain >= 2
    /\ last.op = "prp_inverse" /\ last.arg < 0 /\ raised = "ValueError"
    /\ forward_table[0] # 0

\* C14: verify_bijection() returns True on every constructed TablePRP.
C14_VerifyBijection ==
    /\ pc = "ready" => VerifyBijectionResult = [raises |-> "none", ret |-> TRUE]
    /\ last.op = "verify_bijection" => (last.ret = TRUE /\ raised = "none")

C14_Witness ==
    /\ pc = "ready" /\ prp_domain >= 3
    /\ last.op = "verify_bijection" /\ last.ret = TRUE
    /\ \A x \in 0..(prp_domain - 1) : forward_table[x] # x

\* C15: uint64_n(n) returns a value of [0, n) for every n >= 1, on the mask
\* branch and on the rejection branch, whatever words the generator yields;
\* uint64_n(0) and uint64_n(1) return 0.
C15_Uint64NRange ==
    /\ \A n \in 2..MaxVal, r \in RngWords :
           Uint64NOnDraw(n, r).accept => Uint64NOnDraw(n, r).ret \in 0..(n - 1)
    /\ last.op = "uint64_n" =>
           /\ last.arg >= 1 => last.ret \in 0..(last.arg - 1)
           /\ last.arg \in {0, 1} => last.ret = 0

C15_Witness ==
    /\ last.op = "uint64_n" /\ last.arg = 6 /\ last.ret = 5
    /\ rng_counter >= 2 /\ pc = "rng_idle"

\* C16: on the rejection branch of uint64_n(n) the accepted words, those
\* below threshold = M - (M mod n) with M = 2^w - 1, hold the same number of
\* values in every residue class mod n, and a word >= threshold is never
\* the one a call returns on.
NonPowerOfTwo(n) == n >= 2 /\ BitAnd(n, n - 1) # 0

C16_NoModuloBias ==
    /\ [](\A n \in 2..MaxVal : NonPowerOfTwo(n) =>
              \A c \in 0..(n - 1) :
                  Cardinality({r \in RngWords : /\ Uint64NOnDraw(n, r).accept
                                                /\ Uint64NOnDraw(n, r).ret = c})
                      = Threshold(n) \div n)
    /\ [][(pc = "rng_draw" /\ pc' = "rng_idle" /\ NonPowerOfTwo(rng_n))
              => (rng_r' < MaxVal - (MaxVal % rng_n) /\ last'.ret = rng_r' % rng_n)]_vars

C16_Witness ==
    /\ pc = "rng_idle" /\ last.op = "uint64_n"
    /\ last.arg = 3 /\ last.ret = 2 /\ rng_r = 5
    /\ rng_counter >= 2

\* C19: for every x in [0, n) with y = forward(x), the nodes (low, high,
\* ball_count, left_count) that forward(x) visits are, in order, the nodes
\* that inverse(y) visits, and at each of them both walks take the sample
\* keyed on encode_node(low, high, n) with n the instance's domain.
InternalNodes(path) ==
    LET calls == SelectSeq(path, LAMBDA c : c.left_count >= 0)
    IN  [i \in 1..Len(calls) |->
            Visit(calls[i].low, calls[i].high, calls[i].ball_count, calls[i].left_count)]

KeyedOnDomain(v) ==
    v.left_count = SampleBinomial(EncodeNode(v.low, v.high, domain), v.ball_count,
                                  (v.low + v.high) \div 2 - v.low + 1, v.high - v.low + 1)

C19_SameWalk ==
    inst => \A x \in 0..(domain - 1) :
                LET f == IprfForward(x)
                    g == IprfInverse(f.ret)
                IN  /\ InternalNodes(g.path) = f.path
                    /\ \A i \in 1..Len(f.path) : KeyedOnDomain(f.path[i])
                    /\ \A i \in 1..Len(g.path) :
                           g.path[i].left_count >= 0 => KeyedOnDomain(g.path[i])

C19_Witness ==
    /\ inst /\ range_size >= 3 /\ domain >= 3
    /\ last.op = "inverse" /\ last.arg \in 0..(range_size - 1)
    /\ \E x \in 0..(domain - 1) :
           /\ IprfForward(x).ret = last.arg
           /\ Len(IprfForward(x).path) >= 2
           /\ IprfForward(x).path[2].ball_count \in 1..(domain - 1)
           /\ InternalNodes(last.path) = IprfForward(x).path

\* C20: every call of the recursion that inverse(y) starts, y in [0, m), has
\* ball_count = end_idx - start_idx + 1, ball_count >= 1,
\* 0 <= start_idx <= end_idx <= n - 1 and low <= y <= high.
CallInvariant(c, y) ==
    /\ c.ball_count = c.end_idx - c.start_idx + 1
    /\ c.ball_count >= 1
    /\ 0 <= c.start_idx /\ c.start_idx <= c.end_idx /\ c.end_idx <= domain - 1
    /\ c.low <= y /\ y <= c.high

C20_RecursionInvariant ==
    /\ inst => \A y \in 0..(range_size - 1) :
                   LET p == IprfInverse(y).path
                   IN  \A i \in 1..Len(p) : CallInvariant(p[i], y)
    /\ (inst /\ last.op = "inverse" /\ last.arg \in 0..(range_size - 1)) =>
           \A i \in 1..Len(last.path) : CallInvariant(last.path[i], last.arg)

C20_Witness ==
    /\ inst /\ range_size >= 3 /\ domain >= 3
    /\ last.op = "inverse" /\ last.arg \in 0..(range_size - 1)
    /\ Len(last.path) >= 3
    /\ last.path[3].start_idx >= 1 /\ last.path[3].end_idx < domain - 1

\* C21: for m >= 2 and x in [0, n) the forward loop makes at most
\* ceil(log2 m) iterations, the number recorded as tree_depth, with one
\* sampler call each; the inverse recursion for y in [0, m) visits at most
\* ceil(log2 m) + 1 nodes, each a half of the node before it.
ChildOf(c, p) ==
    LET mid == (p.low + p.high) \div 2
    IN  \/ c.low = p.low /\ c.high = mid
        \/ c.low = mid + 1 /\ c.high = p.high

C21_BoundedDescent ==
    (inst /\ range_size >= 2) =>
        /\ tree_depth = CeilLog2(range_size)
        /\ \A x \in 0..(domain - 1) :
               /\ Len(IprfForward(x).path) <= tree_depth
               /\ Samples(IprfForward(x).path) = Len(IprfForward(x).path)
        /\ \A y \in 0..(range_size - 1) :
               LET p == IprfInverse(y).path
               IN  /\ Len(p) <= tree_depth + 1
                   /\ \A i \in 2..Len(p) : ChildOf(p[i], p[i - 1])

\* C22: at every internal node [low, high] that forward or inverse reaches,
\* left_bins = mid - low + 1 and right_bins = high - mid are both at least 1,
\* left_bins - right_bins is 0 or 1, and p = left_bins / total_bins lies in
\* [1/2, 1).
SplitGeometry(low, high) ==
    LET left_bins == Mid(low, high) - low + 1
        right_bins == high - Mid(low, high)
        total_bins == high - low + 1
    IN  /\ left_bins - right_bins \in {0, 1}
        /\ left_bins >= 1 /\ right_bins >= 1
        /\ left_bins + right_bins = total_bins
        /\ 2 * left_bins >= total_bins /\ left_bins < total_bins

InternalOf(path) == {path[i] : i \in {j \in 1..Len(path) : path[j].left_count >= 0}}

C22_SplitGeometry ==
    (inst /\ last.op \in {"forward", "inverse"}) =>
        \A v \in InternalOf(last.path) : v.low < v.high /\ SplitGeometry(v.low, v.high)

C22_Witness ==
    /\ inst /\ range_size >= 3
    /\ last.op = "forward" /\ Len(last.path) >= 2
    /\ last.path[1].high - last.path[1].low = 2
    /\ last.path[2].high - last.path[2].low = 1

\* C23: the sampler returns an integer k with 0 <= k <= n for every ball
\* count n >= 0, every p and every u: on the edge cases, on the exact path
\* (n <= 100) and on the normal-approximation path (n > 100).
C23_SamplerRange ==
    last.op = "binomial_inverse_cdf" => last.ret \in 0..last.arg[1]

C23_Witness ==
    /\ last.op = "binomial_inverse_cdf"
    /\ last.arg[1] > EXACT_LIMIT /\ last.arg[2] = <<99, 100>> /\ last.arg[3] = <<19, 20>>
    /\ last.ret = last.arg[1]

\* C24: constructing TablePRP(n, key) starts a generator at counter 0 and
\* completes exactly n - 1 uint64_n calls, with arguments n, n-1, ..., 2 in
\* that order; each drawn j satisfies 0 <= j <= i (i = argument - 1), and
\* perm is a permutation of [0, n) after every swap.
IsPermutation(p, n) ==
    /\ DOMAIN p = 0..(n - 1)
    /\ {p[x] : x \in DOMAIN p} = 0..(n - 1)

C24_DrawOrder ==
    /\ pc \in {"shuffle", "ready"} =>
           /\ \A c \in 1..Len(call_log) :
                  /\ call_log[c].n = prp_domain - c + 1
                  /\ call_log[c].ret >= 0 /\ call_log[c].ret <= call_log[c].n - 1
           /\ rng_draws = 0 => rng_counter = 0
           /\ rng_draws >= Len(call_log)
    /\ pc = "shuffle" =>
           /\ Len(call_log) = prp_domain - 1 - fy_i
           /\ IsPermutation(perm, prp_domain)
    /\ pc = "ready" =>
           /\ Len(call_log) = prp_domain - 1
           /\ IsPermutation(forward_table, prp_domain)

C24_Witness ==
    /\ pc = "ready" /\ prp_domain = 3
    /\ Len(call_log) = 2 /\ call_log[1].ret = 2 /\ call_log[2].ret = 0
    /\ rng_counter > 2

\* C26: the generator's counter is 0 after construction and always equals
\* the number of uint64() draws made (the k-th draw encrypts counter value
\* k - 1); uint64_n(0) and uint64_n(1) draw nothing and leave the counter,
\* uint64_n of a power of two >= 2 draws once, and the rejection branch draws
\* once per rejected word plus once.
C26_CounterAccounting ==
    /\ [](pc \in {"rng_idle", "rng_draw"} =>
              /\ rng_counter = rng_draws
              /\ rng_draws >= 1 => rng_block = rng_draws - 1
              /\ (pc = "rng_idle" /\ last.op = "rng_new") => rng_counter = 0
              /\ (pc = "rng_idle" /\ last.op = "uint64_n") =>
                     /\ last.arg \in {0, 1} => call_draws = 0
                     /\ (last.arg >= 2 /\ ~NonPowerOfTwo(last.arg)) => call_draws = 1
                     /\ NonPowerOfTwo(last.arg) => call_draws >= 1)
    /\ [][
           /\ (pc = "rng_idle" /\ pc' = "rng_idle") => rng_counter' = rng_counter
           /\ (pc = "rng_idle" /\ pc' = "rng_draw") =>
                  (rng_counter' = rng_counter /\ call_draws' = 0)
           /\ pc = "rng_draw" =>
                  /\ rng_counter' = rng_counter + 1
                  /\ call_draws' = call_draws + 1
                  /\ pc' = "rng_draw" <=>
                         (NonPowerOfTwo(rng_n) /\ rng_r' >= MaxVal - (MaxVal % rng_n))
       ]_vars

C26_Witness ==
    /\ pc = "rng_idle" /\ last.op = "uint64_n" /\ last.arg = 5
    /\ call_draws = 3 /\ rng_counter = 4 /\ rng_block = 3

\* C25: two threads calling uint64() on one generator without a lock can
\* both encrypt the same counter value, and so return the same word, and
\* can lose one of the two increments.  Whenever both calls have returned,
\* the counter is 1 or 2, a lost increment comes with a shared block, and a
\* shared block gives a shared word.
AllDone == \A t \in Threads : t_pc[t] = "done"

C25_RaceOutcomes ==
    AllDone =>
        /\ rng_draws = Cardinality(Threads)
        /\ rng_counter \in 1..Cardinality(Threads)
        /\ \A t, u \in Threads : t_block[t] = t_block[u] => t_ret[t] = t_ret[u]
        /\ rng_counter < rng_draws =>
               \E t, u \in Threads : t # u /\ t_block[t] = t_block[u]

C25_Witness ==
    /\ AllDone
    /\ t_block[1] = t_block[2] /\ t_ret[1] = t_ret[2]
    /\ rng_counter = 1 /\ rng_draws = 2

\* C27: the readers of a constructed IPRF (forward, inverse,
\* get_expected_preimage_size) and of a constructed TablePRP (forward,
\* inverse, verify_bijection) leave every field of the instance unchanged,
\* and what a reader returns is a function of the fields and its argument
\* alone, whatever calls came before it.
ReaderResult ==
    CASE last.op = "forward" -> IprfForward(last.arg).ret
      [] last.op = "inverse" -> IprfInverse(last.arg).ret
      [] last.op = "get_expected_preimage_size" -> ExpectedPreimageSize
      [] last.op = "prp_forward" ->
             IF OutOfDomain(last.arg) THEN 0 ELSE Lookup(forward_table, last.arg).ret
      [] last.op = "prp_inverse" ->
             IF OutOfDomain(last.arg) THEN 0 ELSE Lookup(inverse_table, last.arg).ret
      [] last.op = "verify_bijection" -> VerifyBijectionResult.ret
      [] OTHER -> last.ret

IndexInCount(w) ==
    \A i \in 1..Len(w.path) : 0 <= w.idxs[i] /\ w.idxs[i] < w.path[i].ball_count

C28_ForwardMonotone ==
    (inst /\ last.op = "forward" /\ last.arg \in 0..(domain - 1)) =>
        /\ \A x1 \in 0..(last.arg - 1) : IprfForward(x1).ret <= last.ret
        /\ LET w == IprfForward(last.arg)
           IN  /\ w.ret = last.ret /\ w.path = last.path /\ raised = "none"
               /\ Len(w.idxs) = Len(w.path)
               /\ IndexInCount(w)

C28_Witness ==
    /\ inst /\ domain = 3 /\ range_size = 3
    /\ last.op = "forward" /\ last.arg = 2 /\ last.ret = 2
    /\ IprfForward(0).ret = 0 /\ IprfForward(1).ret = 1
    /\ IprfForward(1).idxs = <<1, 1>> /\ IprfForward(2).idxs = <<2>>

\* C29: for every y in [0, m), inverse(y) is empty or exactly the
\* consecutive integers a, a+1, ..., b with 0 <= a <= b <= n-1, and no more
\* than one leaf visit appends to it: over two or more bins a non-empty
\* list is the index range of the one leaf visited, and over one bin it is
\* list(range(n)).
IsInterval(s) ==
    s = <<>> \/ (/\ 0 <= s[1] /\ s[1] <= s[Len(s)] /\ s[Len(s)] <= domain - 1
                 /\ s = Range(s[1], s[Len(s)] + 1))

LeafVisits(path) == SelectSeq(path, LAMBDA c : c.low = c.high /\ c.left_count = -1)

SingleLeaf(w, y) ==
    LET leaves == LeafVisits(w.path)
    IN  /\ Len(leaves) <= 1
        /\ (range_size >= 2 /\ w.ret # <<>>) =>
               /\ Len(leaves) = 1
               /\ leaves[1].low = y
               /\ w.ret = Range(leaves[1].start_idx, leaves[1].end_idx + 1)
        /\ range_size = 1 => w.ret = Range(0, domain)

C29_PreimageInterval ==
    (inst /\ last.op = "inverse" /\ last.arg \in 0..(range_size - 1)) =>
        /\ IsInterval(last.ret)
        /\ SingleLeaf(last, last.arg)

C29_Witness ==
    /\ inst /\ domain = 3 /\ range_size = 3
    /\ last.op = "inverse" /\ last.arg = 1 /\ last.ret = <<1, 2>>
    /\ Len(LeafVisits(last.path)) = 1
    /\ IprfInverse(0).ret = <<0>> /\ IprfInverse(2).ret = <<>>

\* C30: for every constructed IPRF(key, n, m), m = 1 included, and every y
\* outside [0, m), negative y included, inverse(y) returns the empty list.
OutsideRange(y) == y < 0 \/ y >= range_size

C30_OutsideRangeEmpty ==
    /\ inst => \A y \in (-1)..(MaxM + 1) :
                   OutsideRange(y) => IprfInverse(y).ret = <<>>
    /\ (inst /\ last.op = "inverse" /\ OutsideRange(last.arg)) => last.ret = <<>>

====
